---- MODULE Spec2Model ----
(***************************************************************************)
(* A model of mk_design.py: the pipeline that loads a subject-by-covariate *)
(* table, filters rows and columns, mean-centres columns and writes the    *)
(* design matrix with its include / exclude subject lists.                 *)
(*                                                                         *)
(* Strings are sequences of one-character strings, so that splitting,      *)
(* sorting and comparing them is computed as Python computes it.  A table  *)
(* (pandas DataFrame) is a record [cols, rows]: cols is the sequence of    *)
(* column names, rows the sequence of [label, cells] records in row order  *)
(* (label is the pandas index label, cells is aligned with cols).          *)
(***************************************************************************)
EXTENDS Integers, Sequences, FiniteSets, TLC

\* ------------------------------------------------------------------ bounds
\* Largest number of data rows of the input file.
MaxRows == 3

\* The longest string given to the parsing functions on their own.
MaxLen == 3

\* ----------------------------------------------------------------- strings
\* Code point of a character (Python compares strings by code point).
Ord(c) ==
  CASE c = "\t" -> 9
    [] c = "\n" -> 10
    [] c = " " -> 32
    [] c = "," -> 44
    [] c = "." -> 46
    [] c = "0" -> 48
    [] c = "1" -> 49
    [] c = "2" -> 50
    [] c = "3" -> 51
    [] c = "5" -> 53
    [] c = ":" -> 58
    [] c = ";" -> 59
    [] c = "a" -> 97
    [] c = "b" -> 98
    [] c = "c" -> 99
    [] c = "e" -> 101
    [] c = "f" -> 102
    [] c = "i" -> 105
    [] c = "l" -> 108
    [] c = "n" -> 110
    [] c = "o" -> 111
    [] c = "s" -> 115
    [] c = "t" -> 116
    [] c = "u" -> 117
    [] c = "v" -> 118
    [] c = "x" -> 120
    [] c = "z" -> 122
    [] OTHER -> 127

Digits == {"0", "1", "2", "3", "5"}

DigitVal(c) == Ord(c) - 48

Min2(a, b) == IF a < b THEN a ELSE b

\* s < t on Python strings.
StrLess(s, t) ==
  \/ Len(s) < Len(t) /\ \A i \in 1..Len(s) : s[i] = t[i]
  \/ \E k \in 1..Min2(Len(s), Len(t)) :
        /\ \A i \in 1..(k - 1) : s[i] = t[i]
        /\ Ord(s[k]) < Ord(t[k])

\* c in s, for a character c.
Contains(s, c) == \E i \in 1..Len(s) : s[i] = c

\* sub in s, for a string sub.
HasSub(s, sub) ==
  \E i \in 1..(Len(s) - Len(sub) + 1) : SubSeq(s, i, i + Len(sub) - 1) = sub

\* s.split(sep=d), d one character.
RECURSIVE Split(_, _)
Split(s, d) ==
  IF ~Contains(s, d) THEN <<s>>
  ELSE LET k == CHOOSE i \in 1..Len(s) : s[i] = d /\ \A j \in 1..(i - 1) : s[j] # d
       IN  <<SubSeq(s, 1, k - 1)>> \o Split(SubSeq(s, k + 1, Len(s)), d)

\* list.sort() on a list of strings.
RECURSIVE InsertStr(_, _)
InsertStr(sorted, s) ==
  IF sorted = <<>> THEN <<s>>
  ELSE IF StrLess(s, Head(sorted)) THEN <<s>> \o sorted
  ELSE <<Head(sorted)>> \o InsertStr(Tail(sorted), s)

RECURSIVE SortStr(_)
SortStr(l) == IF l = <<>> THEN <<>> ELSE InsertStr(SortStr(Tail(l)), Head(l))

\* ------------------------------------------------------------ file system
\* The files that exist besides the input table, by name: lists of subjects
\* with one entry per line (f), no line at all (e), or one line of entries
\* separated by commas (l), tabs (t) or spaces (s); and tables named as
\* tab-separated (f.tsv), comma-separated (f.csv) and as a comma-separated
\* export of a tab-separated one (f.tsv.csv).
Ext_tsv == <<".", "t", "s", "v">>
Ext_csv == <<".", "c", "s", "v">>

FileNames ==
  { <<"f">>, <<"e">>, <<"l">>, <<"t">>, <<"s">>,
    <<"f">> \o Ext_tsv, <<"f">> \o Ext_csv, <<"f">> \o Ext_tsv \o Ext_csv }

FileContent(name) ==
  CASE name = <<"f">> -> <<"z", "\n", "b", "\n">>
    [] name = <<"e">> -> <<>>
    [] name = <<"l">> -> <<"b", ",", "a", "\n">>
    [] name = <<"t">> -> <<"b", "\t", "a", "\n">>
    [] name = <<"s">> -> <<"b", " ", "a">>
    [] name = <<"f">> \o Ext_tsv -> <<"b", ",", "a", "\n", "c", ",", "a", "\n">>
    [] name = <<"f">> \o Ext_csv -> <<"b", "\t", "a", "\n">>
    [] OTHER -> <<"b", ",", "a", "\n">>

Exists(name) == name \in FileNames

\* file.readlines()[0]; <<>> stands for the IndexError of an empty file.
FirstLine(content) ==
  IF ~Contains(content, "\n") THEN content
  ELSE LET k == CHOOSE i \in 1..Len(content) :
                  content[i] = "\n" /\ \A j \in 1..(i - 1) : content[j] # "\n"
       IN  SubSeq(content, 1, k)

\* str.splitlines()
SplitLines(content) ==
  LET p == Split(content, "\n")
  IN  IF p[Len(p)] = <<>> THEN SubSeq(p, 1, Len(p) - 1) ELSE p

\* --------------------------------------------------------------- parsing
\* find_delim: the delimiter, or "IndexError" (lines[0] of an empty file).
find_delim(in_str) ==
  IF Exists(in_str)
  THEN LET line == FirstLine(FileContent(in_str))
       IN  IF HasSub(in_str, Ext_tsv) THEN "\t"
           ELSE IF HasSub(in_str, Ext_csv) THEN ","
           ELSE IF line = <<>> THEN "IndexError"
           ELSE IF Contains(line, ",") THEN ","
           ELSE IF Contains(line, "\t") THEN "\t"
           ELSE IF Contains(line, "\n") THEN "\n"
           ELSE " "
  ELSE IF Contains(in_str, ",") THEN ","
       ELSE IF Contains(in_str, "\t") THEN "\t"
       ELSE IF Contains(in_str, ":") THEN ":"
       ELSE IF Contains(in_str, ";") THEN ";"
       ELSE " "

file_to_list(name) == SortStr(SplitLines(FileContent(name)))

\* parse_str_list: [ok, v]; ok is FALSE when find_delim raises.
parse_str_list(string) ==
  LET delim == find_delim(string)
  IN  IF delim = "IndexError" THEN [ok |-> FALSE, v |-> <<>>]
      ELSE LET in_list == SortStr(Split(string, delim))
           IN  IF Len(in_list) = 1 /\ Exists(string)
               THEN [ok |-> TRUE, v |-> file_to_list(string)]
               ELSE [ok |-> TRUE, v |-> in_list]

\* str.strip() of the blanks int() ignores.
RECURSIVE LStrip(_)
LStrip(s) ==
  IF s # <<>> /\ Head(s) \in {" ", "\t", "\n"} THEN LStrip(Tail(s)) ELSE s

RECURSIVE RStrip(_)
RStrip(s) ==
  IF s # <<>> /\ s[Len(s)] \in {" ", "\t", "\n"}
  THEN RStrip(SubSeq(s, 1, Len(s) - 1)) ELSE s

RECURSIVE DigitsVal(_)
DigitsVal(s) ==
  IF s = <<>> THEN 0
  ELSE 10 * DigitsVal(SubSeq(s, 1, Len(s) - 1)) + DigitVal(s[Len(s)])

\* int(s): [ok, v]; ok is FALSE for the ValueError.
ParseInt(s) ==
  LET t == RStrip(LStrip(s))
  IN  IF t # <<>> /\ \A i \in 1..Len(t) : t[i] \in Digits
      THEN [ok |-> TRUE, v |-> DigitsVal(t)]
      ELSE [ok |-> FALSE, v |-> 0]

\* [int(i) for i in l]
IntList(l) == [i \in 1..Len(l) |-> ParseInt(l[i]).v]

IntListOk(l) == \A i \in 1..Len(l) : ParseInt(l[i]).ok

\* ------------------------------------------------------------------ cells
\* A cell is a subject ID (a string), a number (the fraction n/d in lowest
\* terms, d > 0) or a missing value (NaN).
NaN == [k |-> "nan", s |-> <<>>, n |-> 0, d |-> 1]

IdCell(str) == [k |-> "id", s |-> str, n |-> 0, d |-> 1]

Abs(a) == IF a < 0 THEN -a ELSE a

RECURSIVE GCD(_, _)
GCD(a, b) == IF b = 0 THEN a ELSE GCD(b, a % b)

NumCell(n, d) ==
  LET g == GCD(Abs(n), d)
  IN  [k |-> "num", s |-> <<>>, n |-> n \div g, d |-> d \div g]

IsNaN(c) == c.k = "nan"

RSub(a, b) == NumCell(a.n * b.d - b.n * a.d, a.d * b.d)

RECURSIVE RSum(_)
RSum(cs) ==
  IF cs = <<>> THEN NumCell(0, 1)
  ELSE LET r == RSum(Tail(cs))
       IN  NumCell(Head(cs).n * r.d + r.n * Head(cs).d, Head(cs).d * r.d)

\* ----------------------------------------------------------------- tables
ColId == <<"i", "d">>
ColX == <<"x">>
ColY == <<"y">>
\* The header line of the input file.
Header == <<ColId, ColX, ColY>>

\* The positions of the columns called name, ascending.
ColPositions(cols, name) ==
  LET Is(i) == cols[i] = name
  IN  SelectSeq([i \in 1..Len(cols) |-> i], Is)

RECURSIVE Flatten(_)
Flatten(ss) == IF ss = <<>> THEN <<>> ELSE Head(ss) \o Flatten(Tail(ss))

\* df.take(pos, axis=1)
TakeCols(df, pos) ==
  [cols |-> [j \in 1..Len(pos) |-> df.cols[pos[j]]],
   rows |-> [r \in 1..Len(df.rows) |->
              [label |-> df.rows[r].label,
               cells |-> [j \in 1..Len(pos) |-> df.rows[r].cells[pos[j]]]]]]

\* df[names] for a list of column names: every column a name designates,
\* name by name (a name that several columns carry designates them all).
GetItemList(df, names) ==
  TakeCols(df, Flatten([j \in 1..Len(names) |-> ColPositions(df.cols, names[j])]))

\* df[col_names[0]] == r, row by row (the table's column names are unique).
IdIs(row, r) == row.cells[1].k = "id" /\ row.cells[1].s = r

\* The subject-ID cells of a table, in row order.
IdCells(df) == [r \in 1..Len(df.rows) |-> df.rows[r].cells[1]]

\* The set of (non-missing) subject IDs of a table.
IdSet(df) == {df.rows[r].cells[1].s : r \in {q \in 1..Len(df.rows) : df.rows[q].cells[1].k = "id"}}

\* Where sort_values puts the row with ID cell a, relative to b: missing last.
IdLeq(a, b) == IsNaN(b) \/ (~IsNaN(a) /\ ~StrLess(b.s, a.s))

SortedById(df) ==
  \A i \in 1..(Len(df.rows) - 1) : IdLeq(df.rows[i].cells[1], df.rows[i + 1].cells[1])

\* pd.read_csv: the data rows in file order, labelled 0, 1, ...
read_csv(in_rows) ==
  [cols |-> Header,
   rows |-> [r \in 1..Len(in_rows) |-> [label |-> r - 1, cells |-> in_rows[r]]]]

\* The orders of n rows: the bijections on 1..n.
RowOrders(n) == Permutations(1..n)

Reorder(df, p) == [cols |-> df.cols, rows |-> [i \in 1..Len(df.rows) |-> df.rows[p[i]]]]

\* df.sort_values(by=col_names[0], ascending=True, kind='quicksort'): quicksort
\* is not stable, so rows with equal IDs come in any order.
sort_values(df) ==
  {t \in {Reorder(df, p) : p \in RowOrders(Len(df.rows))} : SortedById(t)}

\* A load that leaves the rows in file order.
mk_df_unsorted(in_rows) == {read_csv(in_rows)}

\* mk_df: the tables it may return for the data rows of the input file.
mk_df(in_rows) == sort_values(read_csv(in_rows))

\* rm_sub: df.drop(df[df[col_names[0]] == r].index) for every r of rm_list.
DropSub(df, r) ==
  LET labels == {df.rows[i].label : i \in {q \in 1..Len(df.rows) : IdIs(df.rows[q], r)}}
      Keep(row) == row.label \notin labels
  IN  [cols |-> df.cols, rows |-> SelectSeq(df.rows, Keep)]

RECURSIVE DropEach(_, _)
DropEach(df, rm_l) ==
  IF rm_l = <<>> THEN df ELSE DropEach(DropSub(df, Head(rm_l)), Tail(rm_l))

\* A loop that misses the first entry of the list.
rm_sub_skips_first(df, rm_l) == IF Len(rm_l) # 0 THEN DropEach(df, Tail(rm_l)) ELSE df

rm_sub(df, rm_l) == IF Len(rm_l) # 0 THEN DropEach(df, rm_l) ELSE df

\* subs_retain with a non-empty subs_keep: the rows of each subject of the
\* list, appended list entry by list entry to an empty table.
RECURSIVE AppendSubs(_, _)
AppendSubs(df, subs) ==
  IF subs = <<>> THEN <<>>
  ELSE LET Is(row) == IdIs(row, Head(subs))
       IN  SelectSeq(df.rows, Is) \o AppendSubs(df, Tail(subs))

subs_retain(df, subs_keep) ==
  IF Len(subs_keep) # 0
  THEN [cols |-> df.cols, rows |-> AppendSubs(df, subs_keep)]
  ELSE df

\* subs_retain returns its argument itself, not a copy, for an empty list.
RetainAliases(subs_keep) == Len(subs_keep) = 0

\* keep_columns: [ok, v]; ok is FALSE for the IndexError of col_names[idx].
KeepNames(df, kp_list) ==
  LET kp == IF Len(kp_list) = 0
            THEN [i \in 1..(Len(df.cols) - 1) |-> i]
            ELSE kp_list
  IN  <<df.cols[1]>> \o [i \in 1..Len(kp) |-> df.cols[kp[i] + 1]]

KeepIndexOk(df, kp_list) == \A i \in 1..Len(kp_list) : kp_list[i] < Len(df.cols)

\* df.dropna(subset=names)
dropna(df, names) ==
  LET pos == Flatten([j \in 1..Len(names) |-> ColPositions(df.cols, names[j])])
      Full(row) == \A j \in 1..Len(pos) : ~IsNaN(row.cells[pos[j]])
  IN  [cols |-> df.cols, rows |-> SelectSeq(df.rows, Full)]

\* Missing values looked for in every column of the input table, not only in
\* the retained ones.
keep_columns_any_nan(df, kp_list, rm_nan) ==
  IF ~KeepIndexOk(df, kp_list) THEN [ok |-> FALSE, v |-> df]
  ELSE LET kp_cols == KeepNames(df, kp_list)
           df_2 == GetItemList(IF rm_nan THEN dropna(df, df.cols) ELSE df, kp_cols)
       IN  [ok |-> TRUE, v |-> df_2]

keep_columns(df, kp_list, rm_nan) ==
  IF ~KeepIndexOk(df, kp_list) THEN [ok |-> FALSE, v |-> df]
  ELSE LET kp_cols == KeepNames(df, kp_list)
           df_2 == GetItemList(df, kp_cols)
       IN  [ok |-> TRUE, v |-> IF rm_nan THEN dropna(df_2, kp_cols) ELSE df_2]

\* demean_col: the mean of a column skips the missing cells, and a missing
\* cell stays missing.
ColCells(df, p) == [r \in 1..Len(df.rows) |-> df.rows[r].cells[p]]

IsNum(c) == c.k = "num"

\* A mean that divides by the number of rows, missing cells included.
Mean_over_all_rows(cs) ==
  LET nums == SelectSeq(cs, IsNum)
      sum == RSum(nums)
  IN  IF nums = <<>> THEN NaN ELSE NumCell(sum.n, sum.d * Len(cs))

Mean(cs) ==
  LET nums == SelectSeq(cs, IsNum)
      sum == RSum(nums)
  IN  IF nums = <<>> THEN NaN ELSE NumCell(sum.n, sum.d * Len(nums))

SubMean(c, m) == IF IsNum(c) /\ IsNum(m) THEN RSub(c, m) ELSE NaN

\* The table with the column at position p replaced by its demeaned values.
DemeanAt(df, p) ==
  LET m == Mean(ColCells(df, p))
  IN  [cols |-> df.cols,
       rows |-> [r \in 1..Len(df.rows) |->
                  [label |-> df.rows[r].label,
                   cells |-> [j \in 1..Len(df.cols) |->
                               IF j = p THEN SubMean(df.rows[r].cells[j], m)
                               ELSE df.rows[r].cells[j]]]]]

RECURSIVE DemeanAll(_, _)
DemeanAll(df, pos) ==
  IF pos = <<>> THEN df ELSE DemeanAll(DemeanAt(df, Head(pos)), Tail(pos))

\* df[name] = df[name].sub(df[name].mean()): every column called name.
DemeanName(df, name) == DemeanAll(df, ColPositions(df.cols, name))

\* A column of strings has no mean (TypeError).
NameIsNumeric(df, name) ==
  \A r \in 1..Len(df.rows) : \A j \in 1..Len(df.cols) :
     df.cols[j] = name => df.rows[r].cells[j].k # "id"

\* demean_col: [ok, v]; ok is FALSE for the IndexError of col_names[i] and
\* for the TypeError of the mean of a non-numeric column.  col_names is
\* taken from df once, before the loop.
RECURSIVE DemeanLoop(_, _, _)
DemeanLoop(df, col_names, idx) ==
  IF idx = <<>> THEN [ok |-> TRUE, v |-> df]
  ELSE IF Head(idx) >= Len(col_names) THEN [ok |-> FALSE, v |-> df]
  ELSE IF ~NameIsNumeric(df, col_names[Head(idx) + 1]) THEN [ok |-> FALSE, v |-> df]
  ELSE DemeanLoop(DemeanName(df, col_names[Head(idx) + 1]), col_names, Tail(idx))

demean_col(df, col_indices) == DemeanLoop(df, df.cols, col_indices)

\* mk_adj_sub_list.  A list entry is a cell: a subject ID or NaN.
NanCount(df) == Cardinality({r \in 1..Len(df.rows) : IsNaN(df.rows[r].cells[1])})

RECURSIVE SetToSortedSeq(_)
SetToSortedSeq(S) ==
  IF S = {} THEN <<>>
  ELSE LET m == CHOOSE x \in S : \A y \in S : ~StrLess(y, x)
       IN  <<m>> \o SetToSortedSeq(S \ {m})

IdList(strs) == [i \in 1..Len(strs) |-> IdCell(strs[i])]

NaNs(k) == [i \in 1..k |-> NaN]

\* df[col_names[0]].to_list() needs the name to designate one column (several
\* columns make df[name] a DataFrame, which has no to_list: AttributeError).
HasIdSeries(df, name) == Len(ColPositions(df.cols, name)) = 1

\* list(a_set): the elements in the iteration order of the set, which for
\* strings changes from one run of the interpreter to the next (their hash
\* is salted per process).  Every order of the elements is possible.
SetOrders(S) ==
  LET b == SetToSortedSeq(S)
  IN  {[i \in 1..Len(b) |-> b[p[i]]] : p \in Permutations(1..Len(b))}

\* list.sort() of lines 214-215, left undone
list_sort_skipped(l) == l

\* list.sort() of lines 214-215
list_sort(l) == SortStr(l)

\* Lines 209-217 for one iteration order of each set and for i NaN in the
\* removed list and j in the kept list: [ok, rm, keep]; ok is FALSE for the
\* TypeError of sorting a list that holds both strings and NaN.
AdjLists(rm_l, rm_order, keep_order, i, j) ==
  LET rm_strs == list_sort(rm_order \o rm_l)
      keep_strs == list_sort(keep_order)
  IN  IF (i > 0 /\ rm_strs # <<>>) \/ (j > 0 /\ keep_strs # <<>>)
      THEN [ok |-> FALSE, rm |-> <<>>, keep |-> <<>>]
      ELSE [ok |-> TRUE,
            rm |-> IdList(rm_strs) \o NaNs(i),
            keep |-> IdList(keep_strs) \o NaNs(j)]

\* How many NaN a set of NaN keeps depends on whether they are one float
\* object or several, which the build decides.
RmNans(df_all, df_subs) ==
  IF NanCount(df_all) = 0 THEN {0}
  ELSE IF NanCount(df_subs) = 0 THEN 1..NanCount(df_all)
  ELSE 0..NanCount(df_all)

KeepNans(df_subs) == IF NanCount(df_subs) = 0 THEN {0} ELSE 1..NanCount(df_subs)

\* The outcomes of lines 201-217 when the removed list keeps one of rm_nans
\* NaN and the kept list one of keep_nans: [ok, rm, keep]; ok is FALSE for
\* the AttributeError above and for the TypeError of AdjLists.
AdjOutcomes(df_all, df_subs, rm_l, rm_nans, keep_nans) ==
  IF ~(HasIdSeries(df_all, df_all.cols[1]) /\ HasIdSeries(df_subs, df_all.cols[1]))
  THEN {[ok |-> FALSE, rm |-> <<>>, keep |-> <<>>]}
  ELSE {AdjLists(rm_l, ro, ko, i, j) :
          ro \in SetOrders(IdSet(df_all) \ IdSet(df_subs)),
          ko \in SetOrders(IdSet(df_subs)),
          i \in rm_nans, j \in keep_nans}

mk_adj_sub_list(df_all, df_subs, rm_l) ==
  AdjOutcomes(df_all, df_subs, rm_l, RmNans(df_all, df_subs), KeepNans(df_subs))

\* ---------------------------------------------------------------- writing
\* A written file is a sequence of lines, a line a sequence of fields (which
\* the separator joins), a field a record: a text (k = "str"), a number
\* printed with three decimals (k = "num", m the number of thousandths) or
\* the text NaN of a missing value (k = "nan").
StrField(str) == [k |-> "str", s |-> str, m |-> 0]

\* '%.3f' % (n/d): rounded to the nearest thousandth, ties to even.
Round3(n, d) ==
  LET q == (1000 * n) \div d
      r == (1000 * n) % d
  IN  IF 2 * r < d THEN q
      ELSE IF 2 * r > d THEN q + 1
      ELSE IF q % 2 = 0 THEN q ELSE q + 1

Fmt(c) ==
  IF c.k = "id" THEN StrField(c.s)
  ELSE IF c.k = "nan" THEN [k |-> "nan", s |-> <<>>, m |-> 0]
  ELSE [k |-> "num", s |-> <<>>, m |-> Round3(c.n, c.d)]

\* df.to_csv(header=False, index=False, na_rep="NaN", float_format='%.3f')
to_csv(df) ==
  [r \in 1..Len(df.rows) |-> [j \in 1..Len(df.cols) |-> Fmt(df.rows[r].cells[j])]]

\* write_design: the columns named by col_names[1:], as to_csv writes them.
write_design(df) ==
  LET out_cols == SubSeq(df.cols, 2, Len(df.cols))
  IN  to_csv(GetItemList(df, out_cols))

\* list_to_file: "%s\n" % sub for every entry.
list_to_file(in_list) ==
  [i \in 1..Len(in_list) |->
     <<StrField(IF IsNaN(in_list[i]) THEN <<"n", "a", "n">> ELSE in_list[i].s)>>]

\* df.to_csv(header=True, ...): the header line, then the rows.
to_csv_header(df) ==
  <<[j \in 1..Len(df.cols) |-> StrField(df.cols[j])]>> \o to_csv(df)

\* ------------------------------------------------------------------ inputs
\* The subject IDs of the input files.  Every subject has its own value of
\* the covariate x, and the covariate y is the same for all.
IdPool == { <<"a">>, <<"b">>, <<"c">> }

XOf(id) == IF id = <<"a">> THEN 1 ELSE IF id = <<"b">> THEN 2 ELSE 4

YOf(id) == 5

FullRows == {<<IdCell(i), NumCell(XOf(i), 1), NumCell(YOf(i), 1)>> : i \in IdPool}

\* A row with the cell at position j missing.
Blank(row, j) == [i \in 1..Len(row) |-> IF i = j THEN NaN ELSE row[i]]

\* An input file has at most one missing cell: a subject ID or a value of x.
BlankRows == {Blank(row, j) : row \in FullRows, j \in {1, 2}}

FullFiles == UNION {[1..n -> FullRows] : n \in 0..MaxRows}

BlankedFiles ==
  UNION {{[rows EXCEPT ![r] = b] : r \in 1..Len(rows), b \in BlankRows} : rows \in FullFiles}

\* The data rows of the input files, in file order.
InputFiles == FullFiles \cup BlankedFiles

\* The strings given for rm_list, ret_list, kp_col_list and demean_ind.
RmArgs == { <<>>, <<"f">> }
RetArgs == { <<>>, <<"c", ",", "a", ",", "a">>, <<"b", ",", "z">> }
KpArgs == { <<>>, <<"2">>, <<"0", ",", "1">>, <<"1", ",", "1">> }
DemeanArgs == { <<>>, <<"1">> }
Prefixes == { <<"o">> }
Seps == { " " }

Args ==
  [rm : RmArgs, ret : RetArgs, kp : KpArgs, dm : DemeanArgs,
   rm_nan : BOOLEAN, prefix : Prefixes, sep : Seps]

\* ------------------------------------------------------------------- state
VARIABLES
  pc,           \* the position of mk_design
  in_rows,      \* the data rows of in_file, in file order
  arg,          \* the arguments of mk_design, as given
  rm_list, ret_list, kp_col_list, demean_ind,   \* the parsed lists
  heap,         \* the DataFrame objects created so far
  df_init, df_keep, df_rm, df_cols, df,         \* references into heap (0: unbound)
  loaded,       \* the table mk_df returned, as it was returned
  rm_adj, keep_adj,                             \* the lists of line 397
  files,        \* the files written, in the order written
  probe         \* a call of find_delim and parse_str_list made on its own

vars == <<pc, in_rows, arg, rm_list, ret_list, kp_col_list, demean_ind, heap,
          df_init, df_keep, df_rm, df_cols, df, loaded, rm_adj, keep_adj, files,
          probe>>

EmptyTable == [cols |-> <<>>, rows |-> <<>>]

\* No call made on its own: [string, delim, list] with nothing in them.
NoProbe == [string |-> <<>>, delim |-> "", list |-> <<>>]

Init ==
  /\ pc = "mk_df"
  /\ in_rows \in FullFiles \/ in_rows \in BlankedFiles
  /\ arg \in Args
  /\ rm_list = <<>> /\ ret_list = <<>> /\ kp_col_list = <<>> /\ demean_ind = <<>>
  /\ heap = <<>>
  /\ df_init = 0 /\ df_keep = 0 /\ df_rm = 0 /\ df_cols = 0 /\ df = 0
  /\ loaded = EmptyTable
  /\ rm_adj = <<>> /\ keep_adj = <<>>
  /\ files = <<>>
  /\ probe = NoProbe

\* line 365: df_init = mk_df(in_file)
MkDf ==
  /\ pc = "mk_df"
  /\ \E t \in mk_df(in_rows) :
       /\ heap' = <<t>>
       /\ loaded' = t
  /\ df_init' = 1
  /\ pc' = "parse"
  /\ UNCHANGED <<probe, in_rows, arg, rm_list, ret_list, kp_col_list, demean_ind,
                 df_keep, df_rm, df_cols, df, rm_adj, keep_adj, files>>

\* lines 369-377: the lists are parsed from the strings given.
ParsedOrEmpty(str) == IF Len(str) > 0 THEN parse_str_list(str) ELSE [ok |-> TRUE, v |-> <<>>]

ParseLists ==
  /\ pc = "parse"
  /\ LET rm == ParsedOrEmpty(arg.rm)
         ret == ParsedOrEmpty(arg.ret)
         kp == ParsedOrEmpty(arg.kp)
     IN  IF rm.ok /\ ret.ok /\ kp.ok /\ IntListOk(kp.v)
         THEN /\ rm_list' = rm.v
              /\ ret_list' = ret.v
              /\ kp_col_list' = IntList(kp.v)
              /\ pc' = "subs_retain"
         ELSE /\ pc' = "raised"
              /\ UNCHANGED <<rm_list, ret_list, kp_col_list>>
  /\ UNCHANGED <<probe, in_rows, arg, demean_ind, heap, df_init, df_keep, df_rm, df_cols,
                 df, loaded, rm_adj, keep_adj, files>>

\* line 380: df_keep = subs_retain(df=df_init, subs_keep=ret_list)
SubsRetain ==
  /\ pc = "subs_retain"
  /\ IF RetainAliases(ret_list)
     THEN /\ df_keep' = df_init
          /\ heap' = heap
     ELSE /\ heap' = Append(heap, subs_retain(heap[df_init], ret_list))
          /\ df_keep' = Len(heap) + 1
  /\ pc' = "rm_sub"
  /\ UNCHANGED <<probe, in_rows, arg, rm_list, ret_list, kp_col_list, demean_ind,
                 df_init, df_rm, df_cols, df, loaded, rm_adj, keep_adj, files>>

\* line 381: df_rm = rm_sub(df=df_keep, rm_list=rm_list), in place.
RmSub ==
  /\ pc = "rm_sub"
  /\ heap' = [heap EXCEPT ![df_keep] = rm_sub(@, rm_list)]
  /\ df_rm' = df_keep
  /\ pc' = "keep_columns"
  /\ UNCHANGED <<probe, in_rows, arg, rm_list, ret_list, kp_col_list, demean_ind,
                 df_init, df_keep, df_cols, df, loaded, rm_adj, keep_adj, files>>

\* line 382: df_cols = keep_columns(df=df_rm, kp_list=kp_col_list, rm_nan=rm_nan)
KeepColumns ==
  /\ pc = "keep_columns"
  /\ LET r == keep_columns(heap[df_rm], kp_col_list, arg.rm_nan)
     IN  IF r.ok
         THEN /\ heap' = Append(heap, r.v)
              /\ df_cols' = Len(heap) + 1
              /\ pc' = "demean"
         ELSE /\ pc' = "raised"
              /\ UNCHANGED <<heap, df_cols>>
  /\ UNCHANGED <<probe, in_rows, arg, rm_list, ret_list, kp_col_list, demean_ind,
                 df_init, df_keep, df_rm, df, loaded, rm_adj, keep_adj, files>>

\* lines 385-391: the demeaned copy when demean_ind is given, df_cols if not.
Demean ==
  /\ pc = "demean"
  /\ IF Len(arg.dm) > 0
     THEN LET dm == parse_str_list(arg.dm)
              r == demean_col(heap[df_cols], IntList(dm.v))
          IN  IF dm.ok /\ IntListOk(dm.v) /\ r.ok
              THEN /\ demean_ind' = IntList(dm.v)
                   /\ heap' = Append(heap, r.v)
                   /\ df' = Len(heap) + 1
                   /\ pc' = "mk_adj"
              ELSE /\ pc' = "raised"
                   /\ UNCHANGED <<demean_ind, heap, df>>
     ELSE /\ df' = df_cols
          /\ pc' = "mk_adj"
          /\ UNCHANGED <<demean_ind, heap>>
  /\ UNCHANGED <<probe, in_rows, arg, rm_list, ret_list, kp_col_list,
                 df_init, df_keep, df_rm, df_cols, loaded, rm_adj, keep_adj, files>>

\* line 397: [rm_list, ret_list] = mk_adj_sub_list(df_all=df, df_subs=df_cols, rm_list=rm_list)
MkAdjSubList ==
  /\ pc = "mk_adj"
  /\ \E o \in mk_adj_sub_list(heap[df], heap[df_cols], rm_list) :
       IF o.ok
       THEN /\ rm_adj' = o.rm
            /\ keep_adj' = o.keep
            /\ pc' = "write"
       ELSE /\ pc' = "raised"
            /\ UNCHANGED <<rm_adj, keep_adj>>
  /\ UNCHANGED <<probe, in_rows, arg, rm_list, ret_list, kp_col_list, demean_ind, heap,
                 df_init, df_keep, df_rm, df_cols, df, loaded, files>>

\* lines 400-409: the four files are written.
Suffix_txt == <<".", "t", "x", "t">>
Suffix_exclude == <<".", "e", "x", "c", "l", "u", "d", "e">> \o Suffix_txt
Suffix_include == <<".", "i", "n", "c", "l", "u", "d", "e">> \o Suffix_txt
Suffix_all_info == <<".", "a", "l", "l", "_", "i", "n", "f", "o">> \o Suffix_txt

\* The four files of lines 400-409, in the order written.
FilesWritten(a, out_df, rm_l, ret_l) ==
  << [name |-> a.prefix \o Suffix_txt, sep |-> a.sep,
      lines |-> write_design(out_df)],
     [name |-> a.prefix \o Suffix_exclude, sep |-> a.sep,
      lines |-> list_to_file(rm_l)],
     [name |-> a.prefix \o Suffix_include, sep |-> a.sep,
      lines |-> list_to_file(ret_l)],
     [name |-> a.prefix \o Suffix_all_info, sep |-> a.sep,
      lines |-> to_csv_header(out_df)] >>

WriteFiles ==
  /\ pc = "write"
  /\ files' = FilesWritten(arg, heap[df], rm_adj, keep_adj)
  /\ pc' = "done"
  /\ UNCHANGED <<probe, in_rows, arg, rm_list, ret_list, kp_col_list, demean_ind, heap,
                 df_init, df_keep, df_rm, df_cols, df, loaded, rm_adj, keep_adj>>

Next ==
  \/ MkDf
  \/ ParseLists
  \/ SubsRetain
  \/ RmSub
  \/ KeepColumns
  \/ Demean
  \/ MkAdjSubList
  \/ WriteFiles

Spec == Init /\ [][Next]_vars

\* ------------------------------------------- the parsing functions alone
\* find_delim and parse_str_list called on a string of their own: the name
\* of one of the files, or any string of at most MaxLen characters that is
\* not one.
StrChars == {"a", "b", ",", "\t", ":", ";", " "}

Strings == UNION {[1..n -> StrChars] : n \in 1..MaxLen}

InitParse ==
  /\ pc = "find_delim"
  /\ \E str \in FileNames \cup Strings : probe = [NoProbe EXCEPT !.string = str]
  /\ in_rows = <<>>
  /\ arg = [rm |-> <<>>, ret |-> <<>>, kp |-> <<>>, dm |-> <<>>,
            rm_nan |-> TRUE, prefix |-> <<"o">>, sep |-> " "]
  /\ rm_list = <<>> /\ ret_list = <<>> /\ kp_col_list = <<>> /\ demean_ind = <<>>
  /\ heap = <<>>
  /\ df_init = 0 /\ df_keep = 0 /\ df_rm = 0 /\ df_cols = 0 /\ df = 0
  /\ loaded = EmptyTable
  /\ rm_adj = <<>> /\ keep_adj = <<>>
  /\ files = <<>>

\* delim = find_delim(in_file=string)
FindDelim ==
  /\ pc = "find_delim"
  /\ probe' = [probe EXCEPT !.delim = find_delim(probe.string)]
  /\ pc' = "parse_str_list"
  /\ UNCHANGED <<in_rows, arg, rm_list, ret_list, kp_col_list, demean_ind, heap,
                 df_init, df_keep, df_rm, df_cols, df, loaded, rm_adj, keep_adj,
                 files>>

\* sub_list = parse_str_list(string)
ParseStrList ==
  /\ pc = "parse_str_list"
  /\ LET r == parse_str_list(probe.string)
     IN  /\ probe' = [probe EXCEPT !.list = r.v]
         /\ pc' = IF r.ok THEN "returned" ELSE "raised"
  /\ UNCHANGED <<in_rows, arg, rm_list, ret_list, kp_col_list, demean_ind, heap,
                 df_init, df_keep, df_rm, df_cols, df, loaded, rm_adj, keep_adj,
                 files>>

NextParse ==
  \/ FindDelim
  \/ ParseStrList

SpecParse == InitParse /\ [][NextParse]_vars

\* ------------------------------------------------------- a run as a whole
\* mk_design from line 369 on, as one function: the outcomes of a run that
\* loaded table t with arguments a, in which the removed list keeps i NaN
\* and the kept list j.  What is left open is the iteration order of the
\* sets of lines 202-203.  An outcome is [ok, files]; ok is FALSE for a run
\* that raised.
RunRaised == [ok |-> FALSE, files |-> <<>>]

mk_design(t, a, i, j) ==
  LET rm == ParsedOrEmpty(a.rm)
      ret == ParsedOrEmpty(a.ret)
      kp == ParsedOrEmpty(a.kp)
  IN  IF ~(rm.ok /\ ret.ok /\ kp.ok /\ IntListOk(kp.v)) THEN {RunRaised}
      ELSE
        LET kept == IF RetainAliases(ret.v) THEN t ELSE subs_retain(t, ret.v)
            cols == keep_columns(rm_sub(kept, rm.v), IntList(kp.v), a.rm_nan)
        IN  IF ~cols.ok THEN {RunRaised}
            ELSE
              LET dm == ParsedOrEmpty(a.dm)
                  out == IF Len(a.dm) > 0 /\ dm.ok /\ IntListOk(dm.v)
                         THEN demean_col(cols.v, IntList(dm.v))
                         ELSE [ok |-> Len(a.dm) = 0, v |-> cols.v]
              IN  IF ~out.ok THEN {RunRaised}
                  ELSE {IF o.ok
                        THEN [ok |-> TRUE, files |-> FilesWritten(a, out.v, o.rm, o.keep)]
                        ELSE RunRaised
                        : o \in AdjOutcomes(out.v, cols.v, rm.v, {i}, {j})}

\* ------------------------------------------------------------------ claims
Range(seq) == {seq[i] : i \in 1..Len(seq)}

\* What "%s" writes for a list entry or an ID cell.
Text(c) == IF IsNaN(c) THEN <<"n", "a", "n">> ELSE c.s

\* The texts of the lines of a written list, in line order.
LineTexts(f) == [i \in 1..Len(f.lines) |-> f.lines[i][1].s]

\* The texts of the subject IDs of a table.
IdTexts(t) == {Text(c) : c \in Range(IdCells(t))}

UniqueIds(t) ==
  \A i, j \in 1..Len(t.rows) : t.rows[i].cells[1] = t.rows[j].cells[1] => i = j

InList(c, l) == c.k = "id" /\ \E i \in 1..Len(l) : l[i] = c.s

\* C1: after mk_design the include list is exactly the set of subject IDs of
\* the filtered table, and the exclude list is exactly the set of subject IDs
\* of the loaded table that are absent from the filtered table.
C1_ListsReconcileTables ==
  pc = "done" =>
    /\ Range(LineTexts(files[3])) = IdTexts(heap[df])
    /\ Range(LineTexts(files[2])) = IdTexts(loaded) \ IdTexts(heap[df])

\* C2: for an input table with unique subject IDs the design matrix has one
\* row per entry of the include list, and the i-th entry of the include list
\* is the subject ID of the i-th row.
C2_OneRowPerIncludedSubject ==
  (pc = "done" /\ UniqueIds(loaded)) =>
    /\ Len(files[1].lines) = Len(files[3].lines)
    /\ \A i \in 1..Len(files[3].lines) :
         /\ i <= Len(heap[df].rows)
         /\ LineTexts(files[3])[i] = Text(heap[df].rows[i].cells[1])

\* C3: after subs_retain and rm_sub, a row of the loaded table is present if
\* and only if its ID is in ret_list (or ret_list is empty) and not in
\* rm_list, and no other row is present; the lists may name subjects the
\* table does not have.
C3_RowsFilteredByMembership ==
  pc = "keep_columns" =>
    /\ \A r \in Range(loaded.rows) :
         r \in Range(heap[df_rm].rows) <=>
           /\ ret_list = <<>> \/ InList(r.cells[1], ret_list)
           /\ ~InList(r.cells[1], rm_list)
    /\ Range(heap[df_rm].rows) \subseteq Range(loaded.rows)

\* A subject of the table is named in both lists, each list names a subject
\* the table does not have, and another subject's row is in neither list.
C3_Witness ==
  /\ pc = "keep_columns"
  /\ \E r \in Range(loaded.rows) : InList(r.cells[1], ret_list) /\ InList(r.cells[1], rm_list)
  /\ \E i \in 1..Len(ret_list) : ret_list[i] \notin IdSet(loaded)
  /\ \E i \in 1..Len(rm_list) : rm_list[i] \notin IdSet(loaded)
  /\ Len(loaded.rows) > 1
  /\ heap[df_rm].rows = <<>>

Labels(rows) == [i \in 1..Len(rows) |-> rows[i].label]

\* The positions of the columns keep_columns is asked to retain: the ID
\* column and the columns of kp_col_list (all columns for an empty list).
RetainedPos ==
  {1} \cup (IF kp_col_list = <<>> THEN 1..Len(Header)
            ELSE {kp_col_list[i] + 1 : i \in 1..Len(kp_col_list)})

HasMissingRetained(row) == \E j \in RetainedPos : IsNaN(row.cells[j])

\* C4: keep_columns with rm_nan true drops a row if and only if the row has a
\* missing value in a retained column (the ID column or a retained
\* covariate), and with rm_nan false it drops no row.
C4_DropsRowsMissingRetained ==
  pc = "demean" =>
    LET Complete(row) == ~HasMissingRetained(row)
    IN  Labels(heap[df_cols].rows) =
          Labels(IF arg.rm_nan THEN SelectSeq(heap[df_rm].rows, Complete)
                 ELSE heap[df_rm].rows)

\* rm_nan is true and a row with a missing value in a column that is not
\* retained has been kept, next to other rows.
C4_Witness ==
  /\ pc = "demean"
  /\ arg.rm_nan
  /\ Len(heap[df_rm].rows) > 1
  /\ \E r \in Range(heap[df_rm].rows) :
       /\ \E j \in (1..Len(Header)) \ RetainedPos : IsNaN(r.cells[j])
       /\ r.label \in Range(Labels(heap[df_cols].rows))

\* C5: the output of keep_columns has the subject-ID column first and exactly
\* once, followed by exactly the columns at the requested indices (all
\* columns, in their order, for an empty kp_list).
C5_IdColumnFirstAndOnce ==
  pc = "demean" =>
    LET c == heap[df_cols].cols
    IN  /\ c[1] = ColId
        /\ Cardinality({j \in 1..Len(c) : c[j] = ColId}) = 1
        /\ kp_col_list = <<>> => c = Header
        /\ kp_col_list # <<>> =>
             Tail(c) = [i \in 1..Len(kp_col_list) |-> Header[kp_col_list[i] + 1]]

\* The cells of the column at position p, in row order.
Column(t, p) == [r \in 1..Len(t.rows) |-> t.rows[r].cells[p]]

RECURSIVE SumInts(_)
SumInts(ns) == IF ns = <<>> THEN 0 ELSE Head(ns) + SumInts(Tail(ns))

Numerators(cs) == [i \in 1..Len(cs) |-> IF cs[i].k = "num" THEN cs[i].n ELSE 0]

CountNums(cs) == Cardinality({i \in 1..Len(cs) : cs[i].k = "num"})

\* out is the column inp (of whole numbers and missing values) minus the
\* mean of its values: out[r] = inp[r] - S/cnt, by cross-multiplication.
IsCentred(inp, out) ==
  LET S == SumInts(Numerators(inp))
      cnt == CountNums(inp)
  IN  /\ Len(out) = Len(inp)
      /\ \A r \in 1..Len(inp) :
           IF inp[r].k = "num"
           THEN /\ inp[r].d = 1
                /\ out[r].k = "num"
                /\ out[r].n * cnt = out[r].d * (inp[r].n * cnt - S)
           ELSE out[r] = inp[r]

\* The sum of the values of a column is zero (the values are fractions whose
\* denominators divide cnt).
SumsToZero(out) ==
  LET cnt == CountNums(out)
  IN  /\ \A r \in 1..Len(out) : out[r].k = "num" => cnt % out[r].d = 0
      /\ SumInts([r \in 1..Len(out) |->
                   IF out[r].k = "num" THEN out[r].n * (cnt \div out[r].d) ELSE 0]) = 0

\* C6: a demean index i designates the i-th column of the input file, also
\* when kp_col_list selects columns: the columns demeaning changes are
\* original i-th columns, and every original i-th column among the selected
\* ones is centred.
C6_DemeanIndexIsOriginalPosition ==
  (pc = "mk_adj" /\ demean_ind # <<>>) =>
    /\ \A j \in 1..Len(heap[df].cols) :
         Column(heap[df], j) # Column(heap[df_cols], j) =>
           \E i \in 1..Len(demean_ind) : heap[df].cols[j] = Header[demean_ind[i] + 1]
    /\ \A i \in 1..Len(demean_ind) : \A j \in 1..Len(heap[df].cols) :
         heap[df].cols[j] = Header[demean_ind[i] + 1] =>
           IsCentred(Column(heap[df_cols], j), Column(heap[df], j))

C8_DesignIsCovariatesOnly ==
  pc = "done" =>
    LET t == heap[df]
    IN  /\ Len(files[1].lines) = Len(t.rows)
        /\ \A r \in 1..Len(t.rows) :
             files[1].lines[r] = [j \in 1..(Len(t.cols) - 1) |-> Fmt(t.rows[r].cells[j + 1])]
        /\ files[1].name = arg.prefix \o Suffix_txt
        /\ files[2].name = arg.prefix \o Suffix_exclude
        /\ files[3].name = arg.prefix \o Suffix_include
        /\ files[1].name # files[2].name
        /\ files[1].name # files[3].name
        /\ files[2].name # files[3].name
        /\ files[2].lines = list_to_file(rm_adj)
        /\ files[3].lines = list_to_file(keep_adj)

\* The rows come in ascending order of subject ID, the missing IDs last.
Ascending(t) ==
  \A i, j \in 1..Len(t.rows) :
    i < j =>
      LET a == t.rows[i].cells[1]
          b == t.rows[j].cells[1]
      IN  /\ IsNaN(a) => IsNaN(b)
          /\ (a.k = "id" /\ b.k = "id") => ~StrLess(b.s, a.s)

\* The rows of t are the data rows of the file, each exactly once.
IsPermutationOfFile(t) ==
  /\ Len(t.rows) = Len(in_rows)
  /\ \A n \in 1..Len(in_rows) :
       Cardinality({i \in 1..Len(t.rows) : t.rows[i].label = n - 1}) = 1
  /\ \A i \in 1..Len(t.rows) : t.rows[i].cells = in_rows[t.rows[i].label + 1]

\* C9: mk_df returns the data rows of the file, none lost and none twice, in
\* ascending order of subject ID, and the tables rm_sub, keep_columns and
\* demean_col return are in ascending order of subject ID.  A table is not
\* changed once the function has returned it, so the tables are looked at
\* when the run has ended, by returning or by raising.
C9_LoadedSortedAndOrderKept ==
  pc \in {"done", "raised"} =>
    /\ IsPermutationOfFile(loaded) /\ Ascending(loaded)
    /\ df_rm # 0 => Ascending(heap[df_rm])
    /\ df_cols # 0 => Ascending(heap[df_cols])
    /\ df # 0 => Ascending(heap[df])

\* The file is not in ascending order, rm_sub has removed a subject and left
\* several, and the demeaned table has been written.
C9_Witness ==
  /\ pc = "done"
  /\ ~Ascending(read_csv(in_rows))
  /\ rm_list # <<>>
  /\ demean_ind # <<>>
  /\ Len(heap[df].rows) > 1
  /\ Len(heap[df].rows) < Len(loaded.rows)

\* C10: subs_retain returns a copy, for every subs_keep, so that after the
\* in-place removal of rm_sub on what it returned the table it was given
\* (the loaded table) is as mk_df returned it.
C10_RetainReturnsCopy ==
  pc = "keep_columns" => heap[df_init] = loaded


\* The number of NaN a list holds.
NanIn(l) == Cardinality({i \in 1..Len(l) : IsNaN(l[i])})

\* C11: mk_design is deterministic.  A second run on the same input table
\* with the same rm_list, ret_list, kp_col_list, demean_ind, rm_nan and sep
\* writes the design matrix, the include list and the exclude list that this
\* run wrote, line for line, whatever the iteration order of its sets: every
\* outcome of mk_design on the table and the arguments of a finished run is
\* a finished run with the same files.
C11_RunsWriteTheSameFiles ==
  pc = "done" =>
    \A o \in mk_design(loaded, arg, NanIn(rm_adj), NanIn(keep_adj)) :
      o.ok /\ o.files = files

\* A finished run whose kept set has several iteration orders and whose
\* removed list is not empty.
C11_Witness ==
  /\ pc = "done"
  /\ Cardinality(SetOrders(IdSet(heap[df_cols]))) > 1
  /\ rm_adj # <<>>
  /\ Len(files[1].lines) > 1

\* The texts of a written list never go down from one line to the next.
SortedTexts(l) == \A i, j \in 1..Len(l) : i < j => ~StrLess(l[j], l[i])

\* C13: in every run of mk_design the written include list and the written
\* exclude list are each sorted ascending and have no line in common: no
\* subject ID is in both, for every input table, rm_list and ret_list.
C13_ListsDisjointAndSorted ==
  pc = "done" =>
    /\ SortedTexts(LineTexts(files[2]))
    /\ SortedTexts(LineTexts(files[3]))
    /\ Range(LineTexts(files[2])) \cap Range(LineTexts(files[3])) = {}

\* name ends with ext, as a file with that extension does.
HasExt(name, ext) ==
  Len(name) >= Len(ext) /\ SubSeq(name, Len(name) - Len(ext) + 1, Len(name)) = ext

\* The first of the characters of cands that s contains, other if none.
RECURSIVE FirstOf(_, _, _)
FirstOf(s, cands, other) ==
  IF cands = <<>> THEN other
  ELSE IF Contains(s, Head(cands)) THEN Head(cands)
  ELSE FirstOf(s, Tail(cands), other)

\* C12: find_delim infers the delimiter from the extension before the
\* content.  For an existing file it returns tab when the file has a .tsv
\* extension, comma when it has a .csv extension, and only otherwise decides
\* from the first line (comma, else tab, else newline, else space); for a
\* string that is not an existing file it returns the first of comma, tab,
\* colon, semicolon that the string contains, else space.
C12_DelimFromExtensionThenContent ==
  pc \in {"parse_str_list", "returned", "raised"} =>
    LET str == probe.string
    IN  probe.delim =
          IF ~Exists(str) THEN FirstOf(str, <<",", "\t", ":", ";">>, " ")
          ELSE IF HasExt(str, Ext_tsv) THEN "\t"
          ELSE IF HasExt(str, Ext_csv) THEN ","
          ELSE FirstOf(FirstLine(FileContent(str)), <<",", "\t", "\n">>, " ")

\* C14: parse_str_list returns its entries sorted ascending as strings,
\* whatever the order they were given in: a string that is not an existing
\* file gives the pieces between the delimiters find_delim finds, a string
\* that names an existing file gives one entry per line of the file.
C14_EntriesSortedFromStringOrFile ==
  pc \in {"returned", "raised"} =>
    LET str == probe.string
    IN  /\ pc = "returned"
        /\ SortedTexts(probe.list)
        /\ probe.list = SortStr(IF Exists(str)
                                THEN SplitLines(FileContent(str))
                                ELSE Split(str, find_delim(str)))
====
